---- MODULE Spec2Model ----
(***************************************************************************)
(* Model of transcription_handler.py: the asynchronous                     *)
(* download-transcribe-deliver pipeline (process_url_message) with its     *)
(* retrying metadata fetch (fetch_youtube_details), audio download         *)
(* (download_audio) and transcript verification (transcribe_audio).        *)
(*                                                                         *)
(* A task is one run of a coroutine.  One action of the model is one       *)
(* atomic segment of the coroutine under asyncio: it resumes the task at   *)
(* the await it is suspended on and runs the code up to, and including,    *)
(* the call of the next awaited operation.  pc[t] names the await the task *)
(* is suspended on.  The effect an external tool has on the file system    *)
(* while the task awaits it is a step of its own (DownloadTool,            *)
(* WhisperTool).                                                           *)
(***************************************************************************)
EXTENDS Integers, Sequences, FiniteSets, TLC

VARIABLES
    pc,                 \* task -> the await the task is suspended on
    urls,               \* task -> re.findall result of the message (line 77)
    idx,                \* task -> position of the for loop of line 78 (1-based)
    video_id,           \* task -> local video_id (line 86)
    transcription_paths,\* task -> local transcription_paths (line 111), in dict order
    docIdx,             \* task -> position of the for loop of line 120
    caller,             \* task -> who called fetch_youtube_details
    max_retries,        \* task -> parameter of fetch_youtube_details
    base_delay,         \* task -> parameter of fetch_youtube_details
    attempt,            \* task -> loop variable of line 145
    metaScript,         \* task -> outcomes a stubbed metadata tool gives, call by call
    video_json,         \* task -> the keys other than "title" of the object the tool prints
    sleeps,             \* task -> asyncio.sleep durations of the fetch call (line 159)
    result,             \* task -> value returned by a direct fetch_youtube_details call
    whisperRc,          \* task -> process.returncode of the current URL's whisper run (line 51)
    written,            \* task -> formats the current URL's whisper run wrote (history)
    produced,           \* task -> the download of the current URL wrote the audio file
    trace,              \* task -> side effects of the current URL, in order
    audio,              \* video id -> "<video_id>.mp3" exists in the working directory
    transcripts         \* video id -> format -> state of transcriptions/<video_id>.<fmt>

vars == <<pc, urls, idx, video_id, transcription_paths, docIdx, caller, max_retries,
          base_delay, attempt, metaScript, video_json, sleeps, result, whisperRc, written,
          produced, trace, audio, transcripts>>

fetchVars == <<caller, max_retries, base_delay, attempt, metaScript, video_json, sleeps, result>>

(***************************************************************************)
(* Bounds and program constants                                            *)
(***************************************************************************)
MaxUrls == 2            \* longest message: number of URLs re.findall yields
MaxRetriesBound == 3    \* largest max_retries a direct fetch call is given
MaxDuration == 3661     \* durations 0..MaxDuration seconds are all tried

DefaultMaxRetries == 3  \* fetch_youtube_details(url, max_retries=3, ...)
DefaultBaseDelay == 5   \* fetch_youtube_details(url, ..., base_delay=5)

Tasks == {"t1", "t2"}
VideoIds == {"dQw4w9WgXcQ", "jNQXAC9IVRw"}
None == "None"
Missing == "<missing>"

\* URLs as re.findall(r'(https?://\S+)') yields them, by their parts.
UrlSet ==
    { [domain |-> "vimeo.com", path |-> "12345"],
      [domain |-> "youtu.be", path |-> "dQw4w9WgXcQ"],
      [domain |-> "youtube.com", path |-> "jNQXAC9IVRw"] }

YouTubeDomains == {"youtube.com", "youtu.be", "youtube-nocookie.com"}

\* re.match(YOUTUBE_REGEX, url): the domain is a YouTube one and an 11-character
\* token follows.
MatchesYouTube(url) == url.domain \in YouTubeDomains /\ url.path \in VideoIds

\* extract_youtube_video_id: group 6 of the match, ValueError without a match.
extract_youtube_video_id(url) ==
    IF ~MatchesYouTube(url) THEN "ValueError" ELSE url.path

Messages == UNION { [1..n -> UrlSet] : n \in 0..MaxUrls }

(***************************************************************************)
(* Notification texts                                                      *)
(***************************************************************************)
TxtSkipping == "Skipping non-YouTube URL."
TxtProcessing == "Processing YouTube URL..."
TxtFetching == "Fetching YouTube video details..."
TxtFetchFailed == "Failed to fetch video details."
TxtDownloading == "Downloading audio for transcription..."
TxtDownloadFailed == "Audio file could not be downloaded."
TxtTranscribing == "Transcribing audio..."
TxtTranscribeFailed == "Failed to transcribe audio."
TxtSending == "Sending transcription files..."
TxtClosing == "There ya go, have a nice day! :-)"

\* Events of trace: <<kind, argument, argument>>.
SendMessage(text) == <<"send_message", text, "">>
SendTitle(title) == <<"send_message", title, TxtDownloading>>
SendDocument(path) == <<"send_document", path, "">>
Spawn(tool, target) == <<"subprocess", tool, target>>
Remove(path) == <<"os.remove", path, "">>
Sleep == <<"asyncio.sleep", "backoff", "">>

AudioPath(v) == <<v, "mp3">>
TranscriptPath(v, fmt) == <<v, fmt>>

(***************************************************************************)
(* The metadata tool (yt-dlp --dump-json) as the code sees it              *)
(***************************************************************************)
TitleValues == {"Never Gonna Give You Up", None, Missing}

\* stdout: text json.loads rejects, or one JSON object whose "title" key holds a
\* string, holds null (None) or is absent (Missing).
Stdouts ==
    {[parseable |-> FALSE, title |-> Missing]} \cup [parseable : {TRUE}, title : TitleValues]

MetaOutcomes == [rc : {0, 1}, stderr : {"", "ERROR: unable to download"}, stdout : Stdouts]

\* The value Python's None has as a return value.
PyNone == [py |-> "None"]

\* dict.get(key, default)
Get(obj, key, default) == IF obj[key] = Missing THEN default ELSE obj[key]

\* A "duration" key that holds a number of seconds, holds null (PyNone) or is
\* absent (NoKey).  Numbers are wrapped so that they compare with PyNone.
NoKey == [py |-> "<missing>"]
Seconds(n) == [int |-> n]
DurationValues ==
    {NoKey, PyNone} \cup {Seconds(n) : n \in (0..MaxDuration) \cup {7322, 90061}}

\* The keys of the printed object other than "title".  "uploader" stands for the
\* keys upload_date, view_count, like_count, average_rating, comment_count,
\* channel_id, id and tags too, which lines 178-185 read by the same expression.
JsonRest ==
    [uploader : {"Rick Astley", None, Missing},
     description : {"The official video", None, Missing},
     duration : DurationValues]

PlainJson ==
    [uploader |-> "Rick Astley", description |-> "The official video",
     duration |-> Seconds(212)]

\* Line 164: json.loads of the tool's stdout, for task t and tool outcome o.
ParsedObject(t, o) ==
    [title |-> o.stdout.title,
     uploader |-> video_json[t].uploader,
     description |-> video_json[t].description,
     duration |-> video_json[t].duration]

\* dict.get(key): None when the key is absent.
GetOrNone(obj, key) == IF obj[key] = NoKey THEN PyNone ELSE obj[key]

\* Lines 129-137.  "not duration" holds of None and of the number 0.
format_duration(duration) ==
    IF duration = PyNone \/ duration = Seconds(0)
    THEN "No duration available"
    ELSE LET hours == duration.int \div 3600
             remainder == duration.int % 3600
             minutes == remainder \div 60
             seconds == remainder % 60
         IN  IF hours # 0
             THEN ToString(hours) \o "h " \o ToString(minutes) \o "m "
                      \o ToString(seconds) \o "s"
             ELSE ToString(minutes) \o "m " \o ToString(seconds) \o "s"

\* Line 11.
USE_SNIPPET_FOR_DESCRIPTION == FALSE

\* Lines 163-191: the record built from the parsed object.  With the flag of
\* line 11 off, description_text is the result of line 172.
FilteredDetails(video_details) ==
    [title |-> Get(video_details, "title", "No title available"),
     duration |-> format_duration(GetOrNone(video_details, "duration")),
     channel |-> Get(video_details, "uploader", "No channel information available"),
     description |-> Get(video_details, "description", "No description available")]

RECURSIVE Pow2(_)
Pow2(n) == IF n = 0 THEN 1 ELSE 2 * Pow2(n - 1)

\* A variant of line 154 that also retries when the output does not parse.
IsRetryBranch_AlsoUnparseable(o) == (o.stderr # "" /\ o.rc # 0) \/ ~o.stdout.parseable

\* Line 154: the condition of the branch that retries.
IsRetryBranch(o) == o.stderr # "" /\ o.rc # 0

\* Line 156: attempts remain.
AttemptsRemain(t) == attempt[t] < max_retries[t] - 1

\* Line 157
WaitTime(t) == base_delay[t] * Pow2(attempt[t])

(***************************************************************************)
(* transcribe_audio, lines 57-73: the verification of the generated files  *)
(***************************************************************************)
\* A variant of lines 59-63 that declares srt first.
Formats_SrtFirst == <<"srt", "txt", "vtt">>

Formats == <<"txt", "srt", "vtt">>
FileStates == {"missing", "empty", "nonempty"}

\* A variant of line 67 without the size check.
Verified_ExistsOnly(v, fmt) == transcripts[v][fmt] # "missing"

\* os.path.exists(path) and os.path.getsize(path) > 0
Verified(v, fmt) == transcripts[v][fmt] = "nonempty"

\* created_files, as the sequence of its keys in insertion order.
CreatedFiles(v) == SelectSeq(Formats, LAMBDA fmt : Verified(v, fmt))

(***************************************************************************)
(* Initial states                                                          *)
(***************************************************************************)
InitCommon ==
    /\ idx = [t \in Tasks |-> 1]
    /\ video_id = [t \in Tasks |-> None]
    /\ transcription_paths = [t \in Tasks |-> <<>>]
    /\ docIdx = [t \in Tasks |-> 0]
    /\ attempt = [t \in Tasks |-> 0]
    /\ sleeps = [t \in Tasks |-> <<>>]
    /\ result = [t \in Tasks |-> PyNone]
    /\ whisperRc = [t \in Tasks |-> 0]
    /\ written = [t \in Tasks |-> {}]
    /\ produced = [t \in Tasks |-> FALSE]
    /\ trace = [t \in Tasks |-> <<>>]
    /\ audio = [v \in VideoIds |-> FALSE]
    /\ transcripts = [v \in VideoIds |-> [fmt \in {"txt", "srt", "vtt"} |-> "missing"]]

\* One message is being handled: task t1 runs process_url_message on it.
Init ==
    /\ InitCommon
    /\ pc = [t \in Tasks |-> IF t = "t1" THEN "ready" ELSE "idle"]
    /\ \E m \in Messages : urls = [t \in Tasks |-> IF t = "t1" THEN m ELSE <<>>]
    /\ caller = [t \in Tasks |-> "process_url_message"]
    /\ max_retries = [t \in Tasks |-> DefaultMaxRetries]
    /\ base_delay = [t \in Tasks |-> DefaultBaseDelay]
    /\ metaScript = [t \in Tasks |-> <<>>]
    /\ video_json = [t \in Tasks |-> PlainJson]

\* Two messages of one URL each are being handled by two concurrent tasks.  The
\* metadata tool is stubbed: for task t1 it succeeds at once, succeeds at the
\* second attempt, or prints text that does not parse; for t2 it succeeds at once.
OkOutcome ==
    [rc |-> 0, stderr |-> "",
     stdout |-> [parseable |-> TRUE, title |-> "Never Gonna Give You Up"]]
RetryOutcome ==
    [rc |-> 1, stderr |-> "ERROR: unable to download",
     stdout |-> [parseable |-> FALSE, title |-> Missing]]
GarbageOutcome ==
    [rc |-> 0, stderr |-> "", stdout |-> [parseable |-> FALSE, title |-> Missing]]
ConcScripts ==
    {<<OkOutcome, OkOutcome, OkOutcome>>, <<RetryOutcome, OkOutcome, OkOutcome>>,
     <<GarbageOutcome, GarbageOutcome, GarbageOutcome>>}

InitConc ==
    /\ InitCommon
    /\ pc = [t \in Tasks |-> "ready"]
    /\ urls \in [Tasks -> {<<u>> : u \in UrlSet}]
    /\ caller = [t \in Tasks |-> "process_url_message"]
    /\ max_retries = [t \in Tasks |-> DefaultMaxRetries]
    /\ base_delay = [t \in Tasks |-> DefaultBaseDelay]
    /\ \E script \in ConcScripts :
         metaScript = [t \in Tasks |-> IF t = "t1" THEN script
                                           ELSE <<OkOutcome, OkOutcome, OkOutcome>>]
    /\ video_json = [t \in Tasks |-> PlainJson]

\* fetch_youtube_details is called on its own by task t1, with a stubbed tool.
BaseDelays == {1, DefaultBaseDelay}

InitFetch ==
    /\ InitCommon
    /\ pc = [t \in Tasks |-> IF t = "t1" THEN "call_fetch" ELSE "idle"]
    /\ urls = [t \in Tasks |-> <<>>]
    /\ caller = [t \in Tasks |-> "direct"]
    /\ \E mr \in 1..MaxRetriesBound :
         /\ max_retries = [t \in Tasks |-> mr]
         /\ \E script \in [1..mr -> MetaOutcomes] :
              metaScript = [t \in Tasks |-> IF t = "t1" THEN script ELSE <<>>]
    /\ \E bd \in BaseDelays : base_delay = [t \in Tasks |-> bd]
    /\ video_json = [t \in Tasks |-> PlainJson]

\* fetch_youtube_details is called on its own by task t1 with a tool that exits
\* with code 0 and prints one JSON object, any of JsonObjects.
InitDetails ==
    /\ InitCommon
    /\ pc = [t \in Tasks |-> IF t = "t1" THEN "call_fetch" ELSE "idle"]
    /\ urls = [t \in Tasks |-> <<>>]
    /\ caller = [t \in Tasks |-> "direct"]
    /\ max_retries = [t \in Tasks |-> DefaultMaxRetries]
    /\ base_delay = [t \in Tasks |-> DefaultBaseDelay]
    /\ \E title \in TitleValues :
         LET o == [rc |-> 0, stderr |-> "", stdout |-> [parseable |-> TRUE, title |-> title]]
         IN  metaScript = [t \in Tasks |-> IF t = "t1"
                                           THEN [k \in 1..DefaultMaxRetries |-> o]
                                           ELSE <<>>]
    /\ \E j \in JsonRest : video_json = [t \in Tasks |-> j]

(***************************************************************************)
(* process_url_message: the head of the for loop of line 78                *)
(***************************************************************************)
Set(f, t, v) == [f EXCEPT ![t] = v]

\* A variant of line 78 that walks the URLs from the last to the first.
UrlAt_Reversed(t, i) == urls[t][Len(urls[t]) + 1 - i]

\* Line 78: the URL the for loop holds at position i, in order of appearance.
UrlAt(t, i) == urls[t][i]

\* A variant of lines 79-84 without the continue of line 81.
LoopHead_NoContinue(t, i, tr) ==
    /\ idx' = Set(idx, t, i)
    /\ IF i > Len(urls[t])
       THEN /\ pc' = Set(pc, t, "done")
            /\ trace' = Set(trace, t, tr)
            /\ UNCHANGED <<video_id, transcription_paths, docIdx, produced, whisperRc, written>>
       ELSE /\ video_id' = Set(video_id, t, None)
            /\ whisperRc' = Set(whisperRc, t, 0)
            /\ written' = Set(written, t, {})
            /\ transcription_paths' = Set(transcription_paths, t, <<>>)
            /\ docIdx' = Set(docIdx, t, 0)
            /\ produced' = Set(produced, t, FALSE)
            /\ pc' = Set(pc, t, "aw_processing")
            /\ IF ~MatchesYouTube(UrlAt(t, i))
               THEN trace' = Set(trace, t, <<SendMessage(TxtSkipping), SendMessage(TxtProcessing)>>)
               ELSE trace' = Set(trace, t, <<SendMessage(TxtProcessing)>>)

\* Lines 78-84, entered with loop position i: the loop ends, or the URL is skipped,
\* or "Processing YouTube URL..." is sent.  tr is the trace of the URL just left;
\* the trace and the locals start afresh with each URL.
LoopHead(t, i, tr) ==
    /\ idx' = Set(idx, t, i)
    /\ IF i > Len(urls[t])
       THEN /\ pc' = Set(pc, t, "done")
            /\ trace' = Set(trace, t, tr)
            /\ UNCHANGED <<video_id, transcription_paths, docIdx, produced, whisperRc, written>>
       ELSE /\ video_id' = Set(video_id, t, None)
            /\ whisperRc' = Set(whisperRc, t, 0)
            /\ written' = Set(written, t, {})
            /\ transcription_paths' = Set(transcription_paths, t, <<>>)
            /\ docIdx' = Set(docIdx, t, 0)
            /\ produced' = Set(produced, t, FALSE)
            /\ IF ~MatchesYouTube(UrlAt(t, i))
               THEN /\ pc' = Set(pc, t, "aw_skip")
                    /\ trace' = Set(trace, t, <<SendMessage(TxtSkipping)>>)
               ELSE /\ pc' = Set(pc, t, "aw_processing")
                    /\ trace' = Set(trace, t, <<SendMessage(TxtProcessing)>>)

\* The task starts: line 77, then the loop head.
Start(t) ==
    /\ pc[t] = "ready"
    /\ LoopHead(t, 1, <<>>)
    /\ UNCHANGED <<urls, fetchVars, audio, transcripts>>

\* Line 81: continue after "Skipping non-YouTube URL.".
AfterSkip(t) ==
    /\ pc[t] = "aw_skip"
    /\ LoopHead(t, idx[t] + 1, trace[t])
    /\ UNCHANGED <<urls, fetchVars, audio, transcripts>>

\* Lines 86-90: extract the id, send "Fetching YouTube video details...".
AfterProcessing(t) ==
    /\ pc[t] = "aw_processing"
    /\ LET vid == extract_youtube_video_id(UrlAt(t, idx[t])) IN
         IF vid = "ValueError"
         THEN /\ pc' = Set(pc, t, "crashed")
              /\ UNCHANGED <<video_id, trace>>
         ELSE /\ video_id' = Set(video_id, t, vid)
              /\ trace' = Set(trace, t, Append(trace[t], SendMessage(TxtFetching)))
              /\ pc' = Set(pc, t, "aw_fetching")
    /\ UNCHANGED <<urls, idx, transcription_paths, docIdx, fetchVars, whisperRc, written,
                   produced, audio, transcripts>>

(***************************************************************************)
(* fetch_youtube_details, lines 140-195                                    *)
(***************************************************************************)
MetaSpawn(t) == Spawn("yt-dlp --dump-json", video_id[t])

\* The return of fetch_youtube_details with value res, and what its caller does
\* with it up to the caller's next await.  process_url_message: lines 93-99.
FetchReturn(t, res) ==
    IF caller[t] = "direct"
    THEN /\ pc' = Set(pc, t, "returned")
         /\ result' = Set(result, t, res)
         /\ UNCHANGED <<trace, attempt, sleeps>>
    ELSE /\ attempt' = Set(attempt, t, 0)
         /\ sleeps' = Set(sleeps, t, <<>>)
         /\ UNCHANGED result
         /\ IF res = PyNone
            THEN /\ trace' = Set(trace, t, Append(trace[t], SendMessage(TxtFetchFailed)))
                 /\ pc' = Set(pc, t, "aw_fetch_failed")
            ELSE /\ trace' = Set(trace, t, Append(trace[t], SendTitle(res.title)))
                 /\ pc' = Set(pc, t, "aw_title")

\* Line 145: the for loop goes to its next iteration, or ends (line 195).
\* A variant of lines 145-161 that retries without counting the attempts.
NextIteration_RetriesForever(t) ==
    /\ trace' = Set(trace, t, Append(trace[t], MetaSpawn(t)))
    /\ pc' = Set(pc, t, "aw_meta")
    /\ UNCHANGED <<attempt, sleeps, result>>

NextIteration(t) ==
    IF attempt[t] + 1 < max_retries[t]
    THEN /\ attempt' = Set(attempt, t, attempt[t] + 1)
         /\ trace' = Set(trace, t, Append(trace[t], MetaSpawn(t)))
         /\ pc' = Set(pc, t, "aw_meta")
         /\ UNCHANGED <<sleeps, result>>
    ELSE FetchReturn(t, PyNone)

\* Lines 141-152: the call, up to the first await of the tool.
FetchEnter(t) ==
    IF max_retries[t] < 1
    THEN FetchReturn(t, PyNone)
    ELSE /\ attempt' = Set(attempt, t, 0)
         /\ sleeps' = Set(sleeps, t, <<>>)
         /\ trace' = Set(trace, t, Append(trace[t], MetaSpawn(t)))
         /\ pc' = Set(pc, t, "aw_meta")
         /\ UNCHANGED result

\* Line 91: process_url_message calls fetch_youtube_details with the defaults.
AfterFetching(t) ==
    /\ pc[t] = "aw_fetching"
    /\ FetchEnter(t)
    /\ UNCHANGED <<urls, idx, video_id, transcription_paths, docIdx, caller, max_retries,
                   base_delay, metaScript, video_json, whisperRc, written, produced, audio,
                   transcripts>>

\* fetch_youtube_details called on its own.
CallFetch(t) ==
    /\ pc[t] = "call_fetch"
    /\ FetchEnter(t)
    /\ UNCHANGED <<urls, idx, video_id, transcription_paths, docIdx, caller, max_retries,
                   base_delay, metaScript, video_json, whisperRc, written, produced, audio,
                   transcripts>>

\* What the tool does at this call: what the stub says, or anything.
ToolOutcomes(t) ==
    IF metaScript[t] # <<>> THEN {metaScript[t][attempt[t] + 1]} ELSE MetaOutcomes

\* Lines 152-195: the tool has exited with outcome o.
HandleOutcome(t, o) ==
    IF IsRetryBranch(o)
    THEN IF AttemptsRemain(t)
         THEN /\ sleeps' = Set(sleeps, t, Append(sleeps[t], WaitTime(t)))
              /\ trace' = Set(trace, t, Append(trace[t], Sleep))
              /\ pc' = Set(pc, t, "aw_sleep")
              /\ UNCHANGED <<attempt, result>>
         ELSE NextIteration(t)
    ELSE IF o.stdout.parseable
         THEN FetchReturn(t, FilteredDetails(ParsedObject(t, o)))
         ELSE FetchReturn(t, PyNone)

MetaReturn(t) ==
    /\ pc[t] = "aw_meta"
    /\ \E o \in ToolOutcomes(t) : HandleOutcome(t, o)
    /\ UNCHANGED <<urls, idx, video_id, transcription_paths, docIdx, caller, max_retries,
                   base_delay, metaScript, video_json, whisperRc, written, produced, audio,
                   transcripts>>

\* Line 159: asyncio.sleep returns; the loop goes on.
SleepReturn(t) ==
    /\ pc[t] = "aw_sleep"
    /\ NextIteration(t)
    /\ UNCHANGED <<urls, idx, video_id, transcription_paths, docIdx, caller, max_retries,
                   base_delay, metaScript, video_json, whisperRc, written, produced, audio,
                   transcripts>>

(***************************************************************************)
(* process_url_message, lines 93-126                                       *)
(***************************************************************************)
\* Line 95: continue after "Failed to fetch video details.".
AfterFetchFailed(t) ==
    /\ pc[t] = "aw_fetch_failed"
    /\ LoopHead(t, idx[t] + 1, trace[t])
    /\ UNCHANGED <<urls, fetchVars, audio, transcripts>>

\* Lines 101-103 and 24-28: download_audio starts yt-dlp on "<video_id>.mp3".
AfterTitle(t) ==
    /\ pc[t] = "aw_title"
    /\ trace' = Set(trace, t, Append(trace[t], Spawn("yt-dlp --extract-audio", video_id[t])))
    /\ pc' = Set(pc, t, "aw_download")
    /\ UNCHANGED <<urls, idx, video_id, transcription_paths, docIdx, fetchVars, whisperRc, written,
                   produced, audio, transcripts>>

\* A variant of line 101 with one audio file name for every video.
DownloadTool_FixedName(t) ==
    /\ pc[t] = "aw_download"
    /\ \E wrote \in BOOLEAN :
         /\ audio' = IF wrote THEN [audio EXCEPT !["dQw4w9WgXcQ"] = TRUE] ELSE audio
         /\ produced' = Set(produced, t, wrote)
    /\ pc' = Set(pc, t, "download_exited")
    /\ UNCHANGED <<urls, idx, video_id, transcription_paths, docIdx, fetchVars, whisperRc, written,
                   trace, transcripts>>

\* yt-dlp runs: it writes the audio file, or fails and writes nothing.
DownloadTool(t) ==
    /\ pc[t] = "aw_download"
    /\ \E wrote \in BOOLEAN :
         /\ audio' = IF wrote THEN [audio EXCEPT ![video_id[t]] = TRUE] ELSE audio
         /\ produced' = Set(produced, t, wrote)
    /\ pc' = Set(pc, t, "download_exited")
    /\ UNCHANGED <<urls, idx, video_id, transcription_paths, docIdx, fetchVars, whisperRc, written,
                   trace, transcripts>>

\* A variant of line 105 that looks for any audio file in the working directory.
AfterDownload_AnyAudio(t) ==
    /\ pc[t] = "download_exited"
    /\ IF \A v \in VideoIds : ~audio[v]
       THEN /\ trace' = Set(trace, t, Append(trace[t], SendMessage(TxtDownloadFailed)))
            /\ pc' = Set(pc, t, "aw_dl_failed")
       ELSE /\ trace' = Set(trace, t, Append(trace[t], SendMessage(TxtTranscribing)))
            /\ pc' = Set(pc, t, "aw_transcribing")
    /\ UNCHANGED <<urls, idx, video_id, transcription_paths, docIdx, fetchVars, whisperRc, written,
                   produced, audio, transcripts>>

\* A variant of lines 105-110 without the os.path.exists test.
AfterDownload_NoCheck(t) ==
    /\ pc[t] = "download_exited"
    /\ trace' = Set(trace, t, Append(trace[t], SendMessage(TxtTranscribing)))
    /\ pc' = Set(pc, t, "aw_transcribing")
    /\ UNCHANGED <<urls, idx, video_id, transcription_paths, docIdx, fetchVars, whisperRc, written,
                   produced, audio, transcripts>>

\* Lines 30-33 and 105-110: the file is looked for; failure notice or "Transcribing audio...".
AfterDownload(t) ==
    /\ pc[t] = "download_exited"
    /\ IF ~audio[video_id[t]]
       THEN /\ trace' = Set(trace, t, Append(trace[t], SendMessage(TxtDownloadFailed)))
            /\ pc' = Set(pc, t, "aw_dl_failed")
       ELSE /\ trace' = Set(trace, t, Append(trace[t], SendMessage(TxtTranscribing)))
            /\ pc' = Set(pc, t, "aw_transcribing")
    /\ UNCHANGED <<urls, idx, video_id, transcription_paths, docIdx, fetchVars, whisperRc, written,
                   produced, audio, transcripts>>

\* A variant of line 107 that returns instead of continuing.
AfterDownloadFailed_Returns(t) ==
    /\ pc[t] = "aw_dl_failed"
    /\ pc' = Set(pc, t, "done")
    /\ UNCHANGED <<urls, idx, video_id, transcription_paths, docIdx, fetchVars, whisperRc, written,
                   produced, trace, audio, transcripts>>

\* Line 107: continue after "Audio file could not be downloaded.".
AfterDownloadFailed(t) ==
    /\ pc[t] = "aw_dl_failed"
    /\ LoopHead(t, idx[t] + 1, trace[t])
    /\ UNCHANGED <<urls, fetchVars, audio, transcripts>>

\* Lines 111 and 36-48: transcribe_audio starts whisper on the audio file.
AfterTranscribing(t) ==
    /\ pc[t] = "aw_transcribing"
    /\ trace' = Set(trace, t, Append(trace[t], Spawn("whisper", video_id[t])))
    /\ pc' = Set(pc, t, "aw_whisper")
    /\ UNCHANGED <<urls, idx, video_id, transcription_paths, docIdx, fetchVars, whisperRc, written,
                   produced, audio, transcripts>>

\* whisper runs: for each format it leaves the file as it is, or writes it empty or
\* non-empty; it exits with some code.  Without its input file it writes nothing.
WhisperWrites == [{"txt", "srt", "vtt"} -> {"keep", "empty", "nonempty"}]

WhisperTool(t) ==
    /\ pc[t] = "aw_whisper"
    /\ \E w \in WhisperWrites :
         /\ audio[video_id[t]] \/ \A fmt \in {"txt", "srt", "vtt"} : w[fmt] = "keep"
         /\ transcripts' = [transcripts EXCEPT ![video_id[t]] =
                [fmt \in {"txt", "srt", "vtt"} |->
                    IF w[fmt] = "keep" THEN transcripts[video_id[t]][fmt] ELSE w[fmt]]]
         /\ written' = Set(written, t, {fmt \in {"txt", "srt", "vtt"} : w[fmt] # "keep"})
    /\ \E rc \in {0, 1} : whisperRc' = Set(whisperRc, t, rc)
    /\ pc' = Set(pc, t, "whisper_exited")
    /\ UNCHANGED <<urls, idx, video_id, transcription_paths, docIdx, fetchVars, produced,
                   trace, audio>>

\* transcribe_audio, lines 50-73: the return code is logged; the result is the
\* verified formats of the stem v.
transcribe_audio(v, rc) == CreatedFiles(v)

\* Lines 111-119: transcribe_audio returns; failure notice or "Sending transcription files...".
AfterWhisper(t) ==
    /\ pc[t] = "whisper_exited"
    /\ LET paths == transcribe_audio(video_id[t], whisperRc[t]) IN
         /\ transcription_paths' = Set(transcription_paths, t, paths)
         /\ IF paths = <<>>
            THEN /\ trace' = Set(trace, t, Append(trace[t], SendMessage(TxtTranscribeFailed)))
                 /\ pc' = Set(pc, t, "aw_tr_failed")
            ELSE /\ trace' = Set(trace, t, Append(trace[t], SendMessage(TxtSending)))
                 /\ pc' = Set(pc, t, "aw_sending")
    /\ UNCHANGED <<urls, idx, video_id, docIdx, fetchVars, whisperRc, written, produced, audio,
                   transcripts>>

\* Lines 115-116: os.remove(audio_path), then continue.  os.remove raises when the
\* file is not there.
AfterTranscribeFailed(t) ==
    /\ pc[t] = "aw_tr_failed"
    /\ IF ~audio[video_id[t]]
       THEN /\ pc' = Set(pc, t, "crashed")
            /\ UNCHANGED <<idx, video_id, transcription_paths, docIdx, produced, trace,
                           audio, whisperRc, written>>
       ELSE /\ audio' = [audio EXCEPT ![video_id[t]] = FALSE]
            /\ LoopHead(t, idx[t] + 1, Append(trace[t], Remove(AudioPath(video_id[t]))))
    /\ UNCHANGED <<urls, fetchVars, transcripts>>

\* Line 121 for the k-th entry of transcription_paths: the file is opened and
\* sent, or the delivery raises and the exception leaves process_url_message.
SendDoc(t, k) ==
    /\ docIdx' = Set(docIdx, t, k)
    /\ \E delivered \in BOOLEAN :
         IF delivered
         THEN /\ trace' = Set(trace, t, Append(trace[t],
                      SendDocument(TranscriptPath(video_id[t], transcription_paths[t][k]))))
              /\ pc' = Set(pc, t, "aw_doc")
         ELSE /\ pc' = Set(pc, t, "crashed")
              /\ UNCHANGED trace

\* Lines 120-121: the first document.
AfterSending(t) ==
    /\ pc[t] = "aw_sending"
    /\ SendDoc(t, 1)
    /\ UNCHANGED <<urls, idx, video_id, transcription_paths, fetchVars, whisperRc, written,
                   produced, audio, transcripts>>

\* A variant of lines 120-126 without the os.remove of line 123.
AfterDoc_KeepsAudio(t) ==
    /\ pc[t] = "aw_doc"
    /\ IF docIdx[t] < Len(transcription_paths[t])
       THEN SendDoc(t, docIdx[t] + 1)
       ELSE /\ trace' = Set(trace, t, Append(trace[t], SendMessage(TxtClosing)))
            /\ pc' = Set(pc, t, "aw_closing")
            /\ UNCHANGED docIdx
    /\ UNCHANGED <<urls, idx, video_id, transcription_paths, fetchVars, whisperRc, written,
                   produced, audio, transcripts>>

\* A variant of lines 120-126 that awaits the removal of the audio file and
\* sends no closing message.
AfterDoc_AwaitsRemove(t) ==
    /\ pc[t] = "aw_doc"
    /\ IF docIdx[t] < Len(transcription_paths[t])
       THEN /\ SendDoc(t, docIdx[t] + 1)
            /\ UNCHANGED audio
       ELSE /\ audio' = [audio EXCEPT ![video_id[t]] = FALSE]
            /\ trace' = Set(trace, t, Append(trace[t], Remove(AudioPath(video_id[t]))))
            /\ pc' = Set(pc, t, "aw_closing")
            /\ UNCHANGED docIdx
    /\ UNCHANGED <<urls, idx, video_id, transcription_paths, fetchVars, whisperRc, written,
                   produced, transcripts>>

\* A variant of lines 120-126 that cleans the transcript files up as well.
AfterDoc_RemovesTranscripts(t) ==
    /\ pc[t] = "aw_doc"
    /\ IF docIdx[t] < Len(transcription_paths[t])
       THEN /\ SendDoc(t, docIdx[t] + 1)
            /\ UNCHANGED <<audio, transcripts>>
       ELSE /\ audio' = [audio EXCEPT ![video_id[t]] = FALSE]
            /\ transcripts' = [transcripts EXCEPT ![video_id[t]] =
                                  [fmt \in {"txt", "srt", "vtt"} |-> "missing"]]
            /\ trace' = Set(trace, t, trace[t] \o
                   <<Remove(AudioPath(video_id[t])), SendMessage(TxtClosing)>>)
            /\ pc' = Set(pc, t, "aw_closing")
            /\ UNCHANGED docIdx
    /\ UNCHANGED <<urls, idx, video_id, transcription_paths, fetchVars, whisperRc, written,
                   produced>>

\* Lines 120-126: the next document, or the end of the loop: the audio file
\* is removed and the closing message sent.
AfterDoc(t) ==
    /\ pc[t] = "aw_doc"
    /\ IF docIdx[t] < Len(transcription_paths[t])
       THEN /\ SendDoc(t, docIdx[t] + 1)
            /\ UNCHANGED audio
       ELSE IF ~audio[video_id[t]]
       THEN /\ pc' = Set(pc, t, "crashed")
            /\ UNCHANGED <<docIdx, trace, audio>>
       ELSE /\ audio' = [audio EXCEPT ![video_id[t]] = FALSE]
            /\ trace' = Set(trace, t, trace[t] \o
                   <<Remove(AudioPath(video_id[t])), SendMessage(TxtClosing)>>)
            /\ pc' = Set(pc, t, "aw_closing")
            /\ UNCHANGED docIdx
    /\ UNCHANGED <<urls, idx, video_id, transcription_paths, fetchVars, whisperRc, written,
                   produced, transcripts>>

\* The closing message is sent; the loop goes on.
AfterClosing(t) ==
    /\ pc[t] = "aw_closing"
    /\ LoopHead(t, idx[t] + 1, trace[t])
    /\ UNCHANGED <<urls, fetchVars, audio, transcripts>>

(***************************************************************************)
(* Specifications                                                          *)
(***************************************************************************)
Next ==
    \E t \in Tasks :
        \/ Start(t)
        \/ AfterSkip(t)
        \/ AfterProcessing(t)
        \/ AfterFetching(t)
        \/ MetaReturn(t)
        \/ SleepReturn(t)
        \/ AfterFetchFailed(t)
        \/ AfterTitle(t)
        \/ DownloadTool(t)
        \/ AfterDownload(t)
        \/ AfterDownloadFailed(t)
        \/ AfterTranscribing(t)
        \/ WhisperTool(t)
        \/ AfterWhisper(t)
        \/ AfterTranscribeFailed(t)
        \/ AfterSending(t)
        \/ AfterDoc(t)
        \/ AfterClosing(t)

Spec == Init /\ [][Next]_vars

NextFetch ==
    \E t \in Tasks :
        \/ CallFetch(t)
        \/ MetaReturn(t)
        \/ SleepReturn(t)

SpecFetch == InitFetch /\ [][NextFetch]_vars

(***************************************************************************)
(* Properties of fetch_youtube_details, checked under SpecFetch            *)
(***************************************************************************)
IsMetaSpawn(e) == e[1] = "subprocess" /\ e[2] = "yt-dlp --dump-json"

\* Attempts started so far by the fetch call of task t.
AttemptsStarted(t) == Len(SelectSeq(trace[t], IsMetaSpawn))

\* The k-th outcome of the stubbed tool.
Stub(t, k) == metaScript[t][k]

\* C1: every non-zero exit of the metadata tool is retried while attempts remain:
\* when the call has returned, each attempt that exited non-zero with fewer than
\* max_retries attempts made was followed by a backoff sleep and a further attempt.
C1_RetriesEveryNonZeroExit ==
    \A t \in Tasks :
        pc[t] = "returned" =>
            \A k \in 1..AttemptsStarted(t) :
                (Stub(t, k).rc # 0 /\ k < max_retries[t]) =>
                    /\ AttemptsStarted(t) > k
                    /\ Len(sleeps[t]) >= k

\* The tool fails on its first k calls and then succeeds with parseable output.
FailsThenSucceeds(t, k) ==
    /\ \A i \in 1..k : Stub(t, i).rc # 0
    /\ Stub(t, k + 1).rc = 0
    /\ Stub(t, k + 1).stdout.parseable

\* spawn, sleep, spawn, ..., spawn: k sleeps, each between two attempts.
AlternatingTrace(t, k) ==
    [j \in 1..(2 * k + 1) |-> IF j % 2 = 1 THEN MetaSpawn(t) ELSE Sleep]

\* C2: when the tool fails on the first k attempts and then succeeds with
\* parseable output, the call sleeps exactly k times, base_delay*2^0, ...,
\* base_delay*2^(k-1), each sleep between two attempts, and returns the parsed details.
C2_BackoffThenDetails ==
    \A t \in Tasks :
        pc[t] = "returned" =>
            \A k \in 0..(max_retries[t] - 1) :
                FailsThenSucceeds(t, k) =>
                    /\ sleeps[t] = [i \in 1..k |-> base_delay[t] * 2^(i - 1)]
                    /\ trace[t] = AlternatingTrace(t, k)
                    /\ result[t] # PyNone
                    /\ result[t].title = IF Stub(t, k + 1).stdout.title = Missing
                                         THEN "No title available"
                                         ELSE Stub(t, k + 1).stdout.title

\* C3: never more than max_retries attempts; when every attempt fails there are
\* exactly max_retries attempts and max_retries-1 sleeps, none after the final
\* attempt, and the call returns failure.
C3_BoundedAttempts ==
    \A t \in Tasks :
        /\ AttemptsStarted(t) <= max_retries[t]
        /\ (pc[t] = "returned" /\ \A i \in 1..max_retries[t] : Stub(t, i).rc # 0) =>
              /\ AttemptsStarted(t) = max_retries[t]
              /\ Len(sleeps[t]) = max_retries[t] - 1
              /\ trace[t][Len(trace[t])] = MetaSpawn(t)
              /\ result[t] = PyNone

\* C4: an attempt that exits 0 with output json.loads rejects ends the call at
\* once with failure: it is the last attempt and no sleep follows it.
C4_UnparseableFailsImmediately ==
    \A t \in Tasks :
        \A k \in 1..AttemptsStarted(t) :
            ( /\ k < AttemptsStarted(t) \/ pc[t] # "aw_meta"
              /\ Stub(t, k).rc = 0
              /\ ~Stub(t, k).stdout.parseable ) =>
                /\ k = AttemptsStarted(t)
                /\ pc[t] = "returned"
                /\ result[t] = PyNone
                /\ Len(sleeps[t]) = k - 1
                /\ trace[t][Len(trace[t])] = MetaSpawn(t)

\* C4 on the second attempt: the first was retried, the second exits 0 with garbage.
C4_Witness ==
    \E t \in Tasks :
        /\ pc[t] = "returned"
        /\ AttemptsStarted(t) = 2
        /\ Stub(t, 2).rc = 0
        /\ ~Stub(t, 2).stdout.parseable
        /\ sleeps[t] = <<base_delay[t]>>

(***************************************************************************)
(* Properties of process_url_message, checked under Spec                   *)
(***************************************************************************)
\* Task t takes a step.
Stepped(t) == pc'[t] # pc[t] \/ idx'[t] # idx[t] \/ trace'[t] # trace[t]

\* Task t is working on a URL of its message.
AtUrl(t) == pc[t] \notin {"idle", "ready", "done", "call_fetch", "returned"}

\* The step of task t ends the processing of its current URL.
LeavesUrl(t) ==
    /\ AtUrl(t) /\ pc[t] # "crashed"
    /\ idx'[t] # idx[t] \/ pc'[t] \in {"done", "crashed"}

LastEvent(tr) == tr[Len(tr)]

\* C5: whenever process_url_message leaves a URL whose download produced the
\* audio file (success, transcription failure or a failure while delivering the
\* files), the audio file no longer exists.
C5_AudioDeletedWhenUrlLeft ==
    [][\A t \in Tasks : (produced[t] /\ LeavesUrl(t)) => ~audio'[video_id[t]]]_vars

FailureAwaits == {"aw_skip", "aw_fetch_failed", "aw_dl_failed", "aw_tr_failed"}

NoVerifiedTranscript(v) ==
    \A fmt \in {"txt", "srt", "vtt"} : transcripts[v][fmt] # "nonempty"

\* C6: each failure in the processing of a URL (URL not a YouTube one, metadata
\* fetch ending without details, audio file absent after the download,
\* no verified transcript) is answered in the same step by its failure
\* notification, and the step after the notification goes on to the next URL of the
\* message (or ends the message after the last URL).
C6_FailuresNotifiedAndSkipped ==
    [][\A t \in Tasks :
        /\ ( /\ Stepped(t)
             /\ pc[t] = "ready" \/ idx'[t] # idx[t]
             /\ idx'[t] <= Len(urls[t])
             /\ urls[t][idx'[t]].domain \notin YouTubeDomains )
           => /\ pc'[t] = "aw_skip"
              /\ trace'[t] = <<SendMessage(TxtSkipping)>>
        /\ ( /\ Stepped(t)
             /\ pc[t] \in {"aw_fetching", "aw_meta", "aw_sleep"}
             /\ pc'[t] \notin {"aw_meta", "aw_sleep", "aw_title"} )
           => /\ pc'[t] = "aw_fetch_failed"
              /\ LastEvent(trace'[t]) = SendMessage(TxtFetchFailed)
        /\ (Stepped(t) /\ pc[t] = "download_exited" /\ ~audio[video_id[t]])
           => /\ pc'[t] = "aw_dl_failed"
              /\ LastEvent(trace'[t]) = SendMessage(TxtDownloadFailed)
        /\ (Stepped(t) /\ pc[t] = "whisper_exited" /\ NoVerifiedTranscript(video_id[t]))
           => /\ pc'[t] = "aw_tr_failed"
              /\ LastEvent(trace'[t]) = SendMessage(TxtTranscribeFailed)
        /\ (Stepped(t) /\ pc[t] \in FailureAwaits)
           => /\ idx'[t] = idx[t] + 1
              /\ pc'[t] \in {"aw_skip", "aw_processing", "done"}
      ]_vars

\* A skipped first URL was followed by the second URL, whose download failed
\* and was reported.
C6_Witness ==
    \E t \in Tasks :
        /\ Len(urls[t]) = 2
        /\ urls[t][1].domain \notin YouTubeDomains
        /\ idx[t] = 2
        /\ pc[t] = "aw_dl_failed"
        /\ LastEvent(trace[t]) = SendMessage(TxtDownloadFailed)

IsText(e) == e[1] = "send_message"
IsDoc(e) == e[1] = "send_document"
Texts(tr) == SelectSeq(tr, IsText)

\* C7: a message with one YouTube URL whose download wrote the audio file,
\* whose transcription left verified files and whose deliveries all went through
\* ends with exactly the six notifications Processing, Fetching,
\* title + Downloading, Transcribing, Sending, closing, in this order, with the
\* audio file deleted and the delivered transcript files still in place.
C7_SingleUrlNotifications ==
    \A t \in Tasks :
        ( /\ pc[t] = "done"
          /\ Len(urls[t]) = 1
          /\ urls[t][1].domain \in YouTubeDomains
          /\ produced[t]
          /\ transcription_paths[t] # <<>> ) =>
            LET n == Texts(trace[t]) IN
            /\ Len(n) = 6
            /\ n[1] = SendMessage(TxtProcessing)
            /\ n[2] = SendMessage(TxtFetching)
            /\ n[3][3] = TxtDownloading
            /\ n[3][2] \in {"Never Gonna Give You Up", "None", "No title available"}
            /\ n[4] = SendMessage(TxtTranscribing)
            /\ n[5] = SendMessage(TxtSending)
            /\ n[6] = SendMessage(TxtClosing)
            /\ LastEvent(trace[t]) = SendMessage(TxtClosing)
            /\ ~audio[video_id[t]]
            /\ \A i \in 1..Len(transcription_paths[t]) :
                   transcripts[video_id[t]][transcription_paths[t][i]] = "nonempty"

\* Every tool succeeded at its first call and all three files were delivered.
C7_Witness ==
    \E t \in Tasks :
        /\ pc[t] = "done"
        /\ Len(urls[t]) = 1
        /\ produced[t]
        /\ whisperRc[t] = 0
        /\ transcription_paths[t] = <<"txt", "srt", "vtt">>
        /\ Len(SelectSeq(trace[t], IsDoc)) = 3
        /\ Len(SelectSeq(trace[t], LAMBDA e : e[1] = "subprocess")) = 3
        /\ Texts(trace[t])[3] = SendTitle("Never Gonna Give You Up")

\* Task t is at a URL that is not a YouTube one.
AtNonYouTube(t) ==
    /\ AtUrl(t)
    /\ idx[t] <= Len(urls[t])
    /\ urls[t][idx[t]].domain \notin YouTubeDomains

\* C8: at a URL that does not match the YouTube pattern the task sends the one
\* notification "Skipping non-YouTube URL." and nothing else (no subprocess, no
\* file operation), and its next step goes on to the next URL with the files untouched.
C8_NonYouTubeSkipped ==
    [][\A t \in Tasks :
        /\ AtNonYouTube(t)' =>
              /\ pc'[t] = "aw_skip"
              /\ trace'[t] = <<SendMessage(TxtSkipping)>>
        /\ (AtNonYouTube(t) /\ Stepped(t)) =>
              /\ idx'[t] = idx[t] + 1
              /\ audio' = audio
              /\ transcripts' = transcripts
      ]_vars

\* A skipped first URL, then the second URL begun, with no file ever written.
C8_Witness ==
    \E t \in Tasks :
        /\ Len(urls[t]) = 2
        /\ urls[t][1].domain = "vimeo.com"
        /\ idx[t] = 2
        /\ pc[t] = "aw_processing"
        /\ \A v \in VideoIds : ~audio[v] /\ NoVerifiedTranscript(v)

\* C9: what transcribe_audio returns is exactly the set of formats whose file
\* exists with non-zero size after the tool call, whatever the exit code.
C9_ResultIsVerifiedSet ==
    \A t \in Tasks :
        pc[t] \in {"aw_tr_failed", "aw_sending"} =>
            /\ { transcription_paths[t][i] : i \in 1..Len(transcription_paths[t]) }
                 = { fmt \in {"txt", "srt", "vtt"} :
                         transcripts[video_id[t]][fmt] = "nonempty" }
            /\ \A i, j \in 1..Len(transcription_paths[t]) :
                   transcription_paths[t][i] = transcription_paths[t][j] => i = j

\* whisper exited non-zero, leaving txt non-empty, srt empty and vtt missing.
C9_Witness ==
    \E t \in Tasks :
        /\ pc[t] = "aw_sending"
        /\ whisperRc[t] = 1
        /\ transcripts[video_id[t]] = [txt |-> "nonempty", srt |-> "empty", vtt |-> "missing"]
        /\ transcription_paths[t] = <<"txt">>

\* The documents of the verified files of v, txt first, then srt, then vtt.
ExpectedDocs(v) ==
    (IF transcripts[v]["txt"] = "nonempty" THEN <<SendDocument(<<v, "txt">>)>> ELSE <<>>)
    \o (IF transcripts[v]["srt"] = "nonempty" THEN <<SendDocument(<<v, "srt">>)>> ELSE <<>>)
    \o (IF transcripts[v]["vtt"] = "nonempty" THEN <<SendDocument(<<v, "vtt">>)>> ELSE <<>>)

\* The events that follow "Sending transcription files...".
SinceSending(tr) ==
    LET i == CHOOSE k \in 1..Len(tr) : tr[k] = SendMessage(TxtSending)
    IN  SubSeq(tr, i + 1, Len(tr))

\* C10: with a non-empty transcript set, the documents follow the "Sending
\* transcription files..." notification in the order txt, srt, vtt, each file
\* once and absent formats skipped; the audio file is deleted and the closing
\* message sent only after the last of them.
C10_DocumentsInOrder ==
    \A t \in Tasks :
        transcription_paths[t] # <<>> =>
            LET v == video_id[t]
                tail == SinceSending(trace[t])
            IN  /\ \E k \in 1..Len(trace[t]) : trace[t][k] = SendMessage(TxtSending)
                /\ Len(SelectSeq(trace[t], IsDoc)) = Len(SelectSeq(tail, IsDoc))
                /\ IF pc[t] \in {"aw_closing", "done"}
                   THEN /\ tail = ExpectedDocs(v)
                                    \o <<Remove(AudioPath(v)), SendMessage(TxtClosing)>>
                        /\ ~audio[v]
                   ELSE /\ Len(tail) <= Len(ExpectedDocs(v))
                        /\ tail = SubSeq(ExpectedDocs(v), 1, Len(tail))
                        /\ audio[v]

\* txt and vtt were verified, srt was not: both were sent, then the audio removed.
C10_Witness ==
    \E t \in Tasks :
        /\ pc[t] = "aw_closing"
        /\ transcription_paths[t] = <<"txt", "vtt">>
        /\ SinceSending(trace[t]) =
               << SendDocument(<<video_id[t], "txt">>), SendDocument(<<video_id[t], "vtt">>),
                  Remove(AudioPath(video_id[t])), SendMessage(TxtClosing) >>

\* The awaits at which the processing of a URL is over.
FinishedAwaits == FailureAwaits \cup {"aw_closing"}

\* C11: the URLs of a message are processed one after another in their order
\* of appearance: the loop position only moves on by one, and only when the task
\* holds no pending call of the URL it leaves; until then every notification,
\* tool call and file operation of the task is appended to the record of that
\* URL, and every file it changes is a file of that URL's video.
C11_UrlsOneAfterAnother ==
    [][\A t \in Tasks :
        Stepped(t) =>
            /\ idx'[t] \in {idx[t], idx[t] + 1}
            /\ idx'[t] # idx[t] => pc[t] \in FinishedAwaits \cup {"ready"}
            /\ (idx'[t] = idx[t] /\ AtUrl(t)) =>
                  /\ Len(trace'[t]) >= Len(trace[t])
                  /\ SubSeq(trace'[t], 1, Len(trace[t])) = trace[t]
            /\ \A v \in VideoIds :
                  (audio'[v] # audio[v] \/ transcripts'[v] # transcripts[v]) =>
                      /\ idx[t] <= Len(urls[t])
                      /\ v = urls[t][idx[t]].path
      ]_vars

\* The first video was processed to its end (audio removed, transcript left)
\* before whisper runs for the second.
C11_Witness ==
    \E t \in Tasks :
        /\ Len(urls[t]) = 2
        /\ urls[t][1].path = "dQw4w9WgXcQ"
        /\ urls[t][2].path = "jNQXAC9IVRw"
        /\ idx[t] = 2
        /\ pc[t] = "whisper_exited"
        /\ ~audio["dQw4w9WgXcQ"]
        /\ transcripts["dQw4w9WgXcQ"]["txt"] = "nonempty"
        /\ audio["jNQXAC9IVRw"]

(***************************************************************************)
(* Claims about the details record, checked under SpecDetails              *)
(***************************************************************************)
NextDetails == \E t \in Tasks : CallFetch(t) \/ MetaReturn(t)

SpecDetails == InitDetails /\ [][NextDetails]_vars

\* The string the claim gives for a duration of d seconds.
HhMmSs(d) ==
    LET H == d \div 3600
        M == (d % 3600) \div 60
        S == d % 60
    IN  IF H = 0
        THEN ToString(M) \o "m " \o ToString(S) \o "s"
        ELSE ToString(H) \o "h " \o ToString(M) \o "m " \o ToString(S) \o "s"

\* C12: the duration of the details record is "Hh Mm Ss" for a source duration of
\* d seconds, H = d div 3600, M = (d mod 3600) div 60, S = d mod 60, the hours
\* left out exactly when H = 0 (so "0m 0s" for 0 and "1h 1m 1s" for 3661), and
\* "No duration available" when the source has no duration.
C12_DurationFormatted ==
    \A t \in Tasks :
        (pc[t] = "returned" /\ result[t] # PyNone) =>
            LET d == video_json[t].duration IN
                /\ HhMmSs(0) = "0m 0s"
                /\ HhMmSs(3661) = "1h 1m 1s"
                /\ result[t].duration =
                       IF d \in {NoKey, PyNone} THEN "No duration available" ELSE HhMmSs(d.int)

\* The value a key of the source object has, or the placeholder, and never null.
ValueOrPlaceholder(field, source, placeholder) ==
    /\ field \in {source, placeholder}
    /\ field \notin {None, Missing}

\* C13: after a successful fetch every field of the details record holds the
\* source value or its literal placeholder and is never null or absent, for
\* every source object whose keys are each present with a value, present with
\* null, or missing.
C13_FieldsNeverNull ==
    \A t \in Tasks :
        (pc[t] = "returned" /\ result[t] # PyNone) =>
            LET src == ParsedObject(t, Stub(t, attempt[t] + 1)) IN
                /\ DOMAIN result[t] = {"title", "duration", "channel", "description"}
                /\ ValueOrPlaceholder(result[t].title, src.title, "No title available")
                /\ ValueOrPlaceholder(result[t].channel, src.uploader,
                                      "No channel information available")
                /\ ValueOrPlaceholder(result[t].description, src.description,
                                      "No description available")
                /\ \/ result[t].duration = "No duration available"
                   \/ /\ src.duration \notin {NoKey, PyNone}
                      /\ result[t].duration = HhMmSs(src.duration.int)

(***************************************************************************)
(* Files and stages of the pipeline, checked under Spec                    *)
(***************************************************************************)
IsRemove(e) == e[1] = "os.remove"
IsSpawn(e) == e[1] = "subprocess"

\* C14: the pipeline never deletes a transcript file: no step makes a transcript
\* file that is there go away, only the whisper tool changes transcript files,
\* and the only file ever deleted is the audio file of the URL being processed.
C14_OnlyAudioDeleted ==
    [][/\ \A v \in VideoIds : \A fmt \in {"txt", "srt", "vtt"} :
            transcripts[v][fmt] # "missing" => transcripts'[v][fmt] # "missing"
       /\ transcripts' # transcripts => \E t \in Tasks : pc[t] = "aw_whisper"
       /\ \A v \in VideoIds :
            (audio[v] /\ ~audio'[v]) =>
                \E t \in Tasks : /\ AtUrl(t)
                                 /\ idx[t] <= Len(urls[t])
                                 /\ v = urls[t][idx[t]].path
                                 /\ Stepped(t)
       /\ \A t \in Tasks : \A i \in 1..Len(trace'[t]) :
            IsRemove(trace'[t][i]) => trace'[t][i] = Remove(AudioPath(video_id[t]))
      ]_vars

\* The audio file was removed after the deliveries and the transcripts are kept.
C14_Witness ==
    \E t \in Tasks :
        /\ pc[t] = "aw_closing"
        /\ ~audio[video_id[t]]
        /\ \E i \in 1..Len(trace[t]) : trace[t][i] = Remove(AudioPath(video_id[t]))
        /\ transcripts[video_id[t]]["txt"] = "nonempty"
        /\ transcripts[video_id[t]]["vtt"] = "empty"

FailureTexts ==
    {SendMessage(TxtSkipping), SendMessage(TxtFetchFailed), SendMessage(TxtDownloadFailed),
     SendMessage(TxtTranscribeFailed)}

\* Event e occurs in tr before position i.
Before(tr, i, e) == \E j \in 1..(i - 1) : tr[j] = e

\* In the record of the current URL every stage comes after the success of the
\* stage before it, and nothing but the removal of the audio file comes after a
\* failure notice.
StagesGated(t) ==
    \A i \in 1..Len(trace[t]) :
        LET e == trace[t][i] IN
            /\ e = Spawn("yt-dlp --extract-audio", video_id[t]) =>
                  \E j \in 1..(i - 1) : IsText(trace[t][j]) /\ trace[t][j][3] = TxtDownloading
            /\ e = Spawn("whisper", video_id[t]) =>
                  /\ Before(trace[t], i, Spawn("yt-dlp --extract-audio", video_id[t]))
                  /\ Before(trace[t], i, SendMessage(TxtTranscribing))
            /\ IsDoc(e) =>
                  /\ Before(trace[t], i, Spawn("whisper", video_id[t]))
                  /\ transcription_paths[t] # <<>>
            /\ e \in FailureTexts =>
                  \A j \in (i + 1)..Len(trace[t]) : IsRemove(trace[t][j])

\* C15: a later stage runs only if every earlier stage succeeded: the download
\* tool is started only after the fetch returned details, the transcription tool
\* only when the audio file exists after the download call, a document is sent
\* only when the transcript set is not empty, and after a failure notice for a
\* URL there is no further tool call, document or notification for that URL.
C15_StagesGated ==
    [][\A t \in Tasks :
          /\ (pc[t] = "download_exited" /\ pc'[t] = "aw_transcribing") =>
                 audio[video_id[t]]
          /\ (pc[t] = "aw_transcribing" /\ pc'[t] = "aw_whisper") =>
                 audio[video_id[t]]
          /\ (pc'[t] = "aw_doc" /\ Stepped(t)) => CreatedFiles(video_id[t]) # <<>>
          /\ StagesGated(t)'
      ]_vars

\* One URL failed at the download, with no later stage run; another went through
\* all stages.
C15_Witness ==
    \E t \in Tasks :
        /\ pc[t] = "aw_doc"
        /\ idx[t] = 2
        /\ Len(SelectSeq(trace[t], IsSpawn)) >= 3
        /\ audio[video_id[t]]
        /\ urls[t][1].path \in VideoIds \ {video_id[t]}
        /\ ~audio[urls[t][1].path]
        /\ NoVerifiedTranscript(urls[t][1].path)

(***************************************************************************)
(* Concurrent tasks, checked under SpecConc                                *)
(***************************************************************************)
SpecConc == InitConc /\ [][Next]_vars

\* The tasks work on pairwise distinct video IDs.
DistinctVideos ==
    \A t, u \in Tasks : t # u =>
        \A i \in 1..Len(urls[t]) : \A j \in 1..Len(urls[u]) :
            (MatchesYouTube(urls[t][i]) /\ MatchesYouTube(urls[u][j])) =>
                urls[t][i].path # urls[u][j].path

\* The step of task t is one that calls os.remove (lines 115, 123).
RemoveStep(t) ==
    /\ Stepped(t)
    /\ \/ pc[t] = "aw_tr_failed"
       \/ pc[t] = "aw_doc" /\ docIdx[t] >= Len(transcription_paths[t])

\* Task t uses as its own, transcribes and deletes only an audio file that its
\* own download wrote, and its deletion finds the file.
OwnsItsAudio(t) ==
    /\ (pc[t] = "download_exited" /\ pc'[t] = "aw_transcribing") => produced[t]
    /\ (pc[t] = "aw_transcribing" /\ pc'[t] = "aw_whisper") =>
           produced[t] /\ audio[video_id[t]]
    /\ RemoveStep(t) => produced[t] /\ audio[video_id[t]]

\* C16 as stated: across any interleaving of concurrent tasks, no task
\* transcribes, treats as its own download result, or deletes an audio file that
\* another task's download created, and every deletion finds the file present.
C16_AudioExclusivelyOwned ==
    [][\A t \in Tasks : OwnsItsAudio(t)]_vars

\* C16 amended: the same, for concurrent tasks that work on pairwise distinct
\* video IDs.
C16_OwnedWhenVideosDistinct ==
    [][DistinctVideos => \A t \in Tasks : OwnsItsAudio(t)]_vars

\* Two tasks on distinct videos: one has deleted its audio file while the other
\* is still transcribing its own.
C16_Witness ==
    /\ DistinctVideos
    /\ pc["t1"] = "aw_closing" /\ produced["t1"] /\ ~audio[video_id["t1"]]
    /\ pc["t2"] = "aw_whisper" /\ produced["t2"] /\ audio[video_id["t2"]]

\* Task t sees in its files what its own tools left there: the audio file is
\* there after the download exactly when the task's download wrote it, the
\* transcript files are those the task's whisper run wrote, the result of
\* transcribe_audio is made of them, and os.remove finds the audio file.
RunsAsAlone(t) ==
    LET v == video_id[t] IN
        /\ pc[t] = "download_exited" => (audio[v] <=> produced[t])
        /\ pc[t] \in {"aw_transcribing", "aw_whisper"} => audio[v]
        /\ pc[t] \in {"whisper_exited", "aw_tr_failed", "aw_sending", "aw_doc", "aw_closing"} =>
               \A fmt \in {"txt", "srt", "vtt"} :
                   transcripts[v][fmt] # "missing" <=> fmt \in written[t]
        /\ pc[t] \in {"aw_tr_failed", "aw_sending", "aw_doc", "aw_closing"} =>
               transcription_paths[t] = CreatedFiles(v)
        /\ pc[t] \in {"aw_tr_failed", "aw_sending", "aw_doc"} => audio[v]

\* C17: when the concurrent tasks work on pairwise distinct video IDs they do
\* not interfere: the audio file and the transcript files of a video are changed
\* by the steps of the task that works on that video only, and each task finds
\* in them what its own tools left, so that it sends the notifications and
\* documents it sends when it runs alone.
C17_NoInterference ==
    [][DistinctVideos =>
          /\ \A v \in VideoIds :
                (audio'[v] # audio[v] \/ transcripts'[v] # transcripts[v]) =>
                    \E t \in Tasks : Stepped(t) /\ video_id[t] = v /\ urls[t][idx[t]].path = v
          /\ \A t \in Tasks : RunsAsAlone(t)'
      ]_vars

\* Both tasks are delivering the transcripts of their own, distinct videos.
C17_Witness ==
    /\ DistinctVideos
    /\ pc["t1"] = "aw_doc" /\ pc["t2"] = "aw_doc"
    /\ video_id["t1"] # video_id["t2"]
    /\ written["t1"] = {"txt"} /\ written["t2"] = {"srt", "vtt"}

AwaitsProcessOrSleep(e) == IsSpawn(e) \/ e = Sleep
AwaitsTransport(e) == IsText(e) \/ IsDoc(e)

\* Task t is in the middle of a URL while another task takes a step.
SuspendedWhileOtherRuns(t) ==
    /\ AtUrl(t) /\ pc[t] # "crashed"
    /\ \E u \in Tasks \ {t} : Stepped(u)

\* C18 as stated: a task yields control only while it awaits an external process
\* or a backoff sleep; no other task runs between the check that the audio file
\* exists and the start of the transcription tool, nor between the end of the
\* transcription and the deletion of the audio file.
C18_YieldsOnlyAtToolsAndSleeps ==
    [][\A t \in Tasks :
          SuspendedWhileOtherRuns(t) =>
              /\ AwaitsProcessOrSleep(LastEvent(trace[t]))
              /\ pc[t] # "aw_transcribing"
              /\ pc[t] \notin {"aw_tr_failed", "aw_sending", "aw_doc"}
      ]_vars

\* C18 amended: a task yields control only while it awaits an external process, a
\* backoff sleep or a call of the chat transport; between the check that the
\* audio file exists and the start of the transcription tool another task runs
\* only while "Transcribing audio..." is being sent, and between the end of the
\* transcription and the deletion of the audio file only while "Sending
\* transcription files...", a document or "Failed to transcribe audio." is being sent.
C18_YieldsAtAwaitedCalls ==
    [][\A t \in Tasks :
          SuspendedWhileOtherRuns(t) =>
              /\ AwaitsProcessOrSleep(LastEvent(trace[t])) \/ AwaitsTransport(LastEvent(trace[t]))
              /\ pc[t] = "aw_transcribing" => LastEvent(trace[t]) = SendMessage(TxtTranscribing)
              /\ pc[t] = "aw_tr_failed" => LastEvent(trace[t]) = SendMessage(TxtTranscribeFailed)
              /\ pc[t] = "aw_sending" => LastEvent(trace[t]) = SendMessage(TxtSending)
              /\ pc[t] = "aw_doc" => IsDoc(LastEvent(trace[t]))
              /\ pc[t] = "aw_closing" => LastEvent(trace[t]) = SendMessage(TxtClosing)
      ]_vars

\* While task t1 was sending "Transcribing audio..." task t2 removed the audio
\* file that t1 had just found.
C18_Witness ==
    /\ pc["t1"] = "aw_transcribing"
    /\ ~audio[video_id["t1"]]
    /\ video_id["t2"] = video_id["t1"]
    /\ pc["t2"] \in {"aw_closing", "done"}

(***************************************************************************)
(* Transcripts left by earlier runs, checked under Spec                    *)
(***************************************************************************)
\* C19: every transcript file delivered for a URL was written by the whisper run
\* of the processing of that URL: a run whose whisper writes no output file
\* reports "Failed to transcribe audio." and delivers no document, whatever
\* earlier runs of the pipeline left behind.
C19_DeliversOwnTranscripts ==
    \A t \in Tasks :
        /\ \A i \in 1..Len(trace[t]) :
              IsDoc(trace[t][i]) => trace[t][i][2][2] \in written[t]
        /\ (written[t] = {} /\ pc[t] \in {"aw_tr_failed", "aw_sending", "aw_doc", "aw_closing"}) =>
              /\ pc[t] = "aw_tr_failed"
              /\ LastEvent(trace[t]) = SendMessage(TxtTranscribeFailed)

(***************************************************************************)
(* Termination, checked under SpecLive                                     *)
(***************************************************************************)
\* Every awaited call returns: the event loop resumes the task, so a step that
\* stays possible is taken.
SpecLive == Init /\ [][Next]_vars /\ WF_vars(Next)

Terminated(t) == pc[t] \in {"idle", "done", "crashed"}

Calls(t, tool) == Len(SelectSeq(trace[t], LAMBDA e : IsSpawn(e) /\ e[2] = tool))

\* C20: when every tool call, backoff sleep and transport call returns,
\* process_url_message terminates for every message: the task ends (an exception
\* of the transport, which is a call that does not return, ends it too), each
\* URL is left at its completion or at a reported failure, and uses at most
\* max_retries metadata calls, one download call and one transcription call.
C20_Terminates ==
    /\ <>(\A t \in Tasks : Terminated(t))
    /\ [][\A t \in Tasks :
             (AtUrl(t) /\ pc[t] # "crashed" /\ (idx'[t] # idx[t] \/ pc'[t] = "done")) =>
                 pc[t] \in FinishedAwaits]_vars
    /\ [](\A t \in Tasks :
             /\ Calls(t, "yt-dlp --dump-json") <= max_retries[t]
             /\ Calls(t, "yt-dlp --extract-audio") <= 1
             /\ Calls(t, "whisper") <= 1)

\* The message is through; its last URL used all its metadata calls, the
\* download and the transcription.
C20_Witness ==
    \E t \in Tasks :
        /\ pc[t] = "done"
        /\ Len(urls[t]) = 2 /\ idx[t] = 3
        /\ Calls(t, "yt-dlp --dump-json") = max_retries[t]
        /\ Calls(t, "yt-dlp --extract-audio") = 1
        /\ Calls(t, "whisper") = 1
        /\ LastEvent(trace[t]) = SendMessage(TxtClosing)

====
